---- MODULE Spec2Model ----
(***************************************************************************)
(* AlgoGraphi-Ka: step-trace playback, narration and diff logic of the     *)
(* algorithm visualizers (React components under src/components and the    *)
(* speech helpers under src/utils).                                        *)
(*                                                                         *)
(* One React component is mounted at a time.  A click is a discrete event: *)
(* React applies the state update, re-renders and runs the effects whose   *)
(* dependencies changed before the next event is handled, so a handler and *)
(* the effect it triggers form one action.  Timers (setTimeout) and speech *)
(* engine events are separate actions.                                     *)
(***************************************************************************)
EXTENDS Integers, Sequences, FiniteSets, TLC

\* ---------------------------------------------------------------- bounds
MaxSteps == 2       \* longest step trace explored (steps.length <= MaxSteps)
MaxTimers == 2      \* pending setTimeout callbacks
MaxEvents == 2      \* pending utterance onend/onerror callbacks
MaxResetKey == 1    \* reset-layout clicks explored

\* ------------------------------------------------------------- vocabulary
\* "BFS" stands for every component with the same three handlers and one
\* narrating effect on [stepIndex, explanationLevel, theme]: BFS, DFS, the
\* search and sort visualizers, Prim's and the linked list
VizKinds == {"BFS", "BellmanFord", "FloydWarshall", "MergeSortTree"}
AudioModules == {"audioUtils", "audio"}
Themes == {"light", "dark"}
Levels == {0, 1}

\* steps[i].actions[l]: the narration string of step i at detail level l
Text(i, l) == <<i, l>>
NoText == <<-1, -1>>

VARIABLES
  viz,               \* which visualizer component is mounted
  audioModule,       \* which module provides speak
  speechApi,         \* whether window.speechSynthesis exists
  N,                 \* steps.length
  stepIndex, explanationLevel, theme, resetKey,      \* useState values
  isSpeaking,        \* audioUtils module flag
  timers,            \* pending 100 ms callbacks of audioUtils.speak (FIFO)
  renderTimers,      \* pending 200 ms callbacks of the merge-sort-tree effect
  engine,            \* utterances held by window.speechSynthesis, head speaking
  events,            \* utterance onend/onerror callbacks not yet delivered
  lastRequest,       \* text of the latest speak call
  lastStarted,       \* text of the latest utterance handed to the engine
  issued,            \* speak calls set off by the latest action
  lastEvent,         \* the latest action
  eventArg,          \* its argument: the slider position asked for, else 0
  bfSteps,           \* Bellman-Ford trace: state.predecessor of every step
  settledNodesRef, settledEdgesRef, prevStepIndexRef,   \* Bellman-Ford refs
  newlySettledNodes, \* newlySettledNodes of the latest Bellman-Ford effect run
  firstDrawn,        \* settled nodes and edges drawn when a step was first shown
  fwSteps,           \* Floyd-Warshall trace: distances and updated_cell per step
  nodePos,           \* where one node of the drawing is: d.x, d.y
  fx,                \* whether that node is pinned: d.fx, d.fy non-null
  dragging,          \* a drag gesture on that node is between start and end
  transitionEnd,     \* pending "end" callbacks of the node's click transition
  encSteps,          \* sort or graph-search trace: the state of every step
  painted,           \* fill (and stroke) the latest drawing gave every entity
  speechFails,       \* whether calls into the speech API may throw
  thrown,            \* an exception left speak and reached the effect
  initialArray,      \* merge-sort tree: input.array
  treeData,          \* merge-sort tree: createTreeStructure(initialArray)
  positionsRef,      \* Prim's and linked list: positionsRef.current
  nodeXY,            \* Prim's and linked list: node.x, node.y of every node
  mounted,           \* the component has not been unmounted
  captured,          \* stepIndex of the latest render, closed over by handlers
  batchCount         \* button events handled since the latest render

playbackVars == <<stepIndex, explanationLevel, theme, resetKey>>
audioVars == <<isSpeaking, timers, engine, events, lastRequest, lastStarted,
               thrown>>
staticVars == <<viz, audioModule, speechApi, N, bfSteps, fwSteps, encSteps,
                speechFails, initialArray, treeData>>
histVars == <<issued, lastEvent, eventArg>>
bfVars == <<settledNodesRef, settledEdgesRef, prevStepIndexRef,
            newlySettledNodes, firstDrawn>>
layoutVars == <<nodePos, fx, dragging, transitionEnd>>
lifeVars == <<positionsRef, nodeXY, mounted, captured, batchCount>>
vars == <<staticVars, playbackVars, audioVars, renderTimers,
          bfVars, histVars, layoutVars, painted, lifeVars>>

Min(a, b) == IF a < b THEN a ELSE b
Max(a, b) == IF a > b THEN a ELSE b

\* ---------------------------------------------------- playback controller
NextIndexUnclamped(prev, n) == prev + 1
NextIndex(prev, n) == Min(prev + 1, n - 1)

PrevIndexUnclamped(prev) == prev - 1
PrevIndex(prev) == Max(prev - 1, 0)

ToggleLevelIncrement(prev) == prev + 1
ToggleLevelAdvanced(prev) == 1
ToggleLevel(prev) == IF prev = 0 THEN 1 ELSE 0

ToggleThemeDark(prev) == "dark"
ToggleTheme(prev) == IF prev = "light" THEN "dark" ELSE "light"

\* <input type="range" min="0" max={steps.length - 1}>: the control keeps its
\* value inside [min, max] whatever position the user asks for
RangeValueUnbounded(i, min, max) == i
RangeValue(i, min, max) == IF i < min THEN min ELSE IF i > max THEN max ELSE i

\* e.target.value is the decimal string of the control's value
RECURSIVE valueString(_)
valueString(n) == IF n < 10 THEN <<n>> ELSE valueString(n \div 10) \o <<n % 10>>

RECURSIVE parseInt(_)
parseInt(s) == IF Len(s) = 1 THEN s[1]
               ELSE 10 * parseInt(SubSeq(s, 1, Len(s) - 1)) + s[Len(s)]

\* dependency list of the effect that narrates
SpeakDeps(v) ==
  IF v = "FloydWarshall" THEN {"stepIndex", "explanationLevel"}
  ELSE IF v = "MergeSortTree"
       THEN {"stepIndex", "explanationLevel", "theme", "resetKey"}
  ELSE {"stepIndex", "explanationLevel", "theme"}

\* the string the effect hands to speak
SpokenTextBeginner(i, l) == Text(i, 0)
SpokenText(i, l) == Text(i, l)

\* ------------------------------------------------------------- narration
\* window.speechSynthesis.cancel(): every utterance leaves the engine; each
\* one that carries handlers gets its onend/onerror callback later
Cancel(q) == <<>>

CanSpeak ==
  /\ Len(timers) < MaxTimers
  /\ events + Len(engine) <= MaxEvents

\* outcomes of a call into the speech API
MayThrow == IF speechFails THEN BOOLEAN ELSE {FALSE}

\* audioUtils.ts speak: without the API, or when cancel() throws, the catch
\* block logs and clears the flag
SpeakUtils(text) ==
  \E fails \in (IF speechApi THEN MayThrow ELSE {TRUE}) :
    /\ IF fails
       THEN /\ isSpeaking' = FALSE
            /\ UNCHANGED <<timers, engine, events, lastStarted>>
       ELSE /\ engine' = Cancel(engine)
            /\ events' = events + (Len(engine) - Len(Cancel(engine)))
            /\ timers' = Append(timers, text)
            /\ UNCHANGED <<isSpeaking, lastStarted>>
    /\ UNCHANGED thrown

\* the statement of audio.ts speak that throws, if any
ThrowPoints ==
  IF speechFails THEN {"none", "utterance", "cancel", "speak"} ELSE {"none"}

\* audio.ts speak: returns at once without the API; nothing catches
SpeakAudio(text) ==
  IF speechApi
  THEN \E point \in ThrowPoints :
         /\ engine' = IF point = "none" THEN Append(Cancel(engine), text)
                      ELSE IF point = "speak" THEN Cancel(engine)
                      ELSE engine
         /\ lastStarted' = IF point = "none" THEN text ELSE lastStarted
         /\ thrown' = (thrown \/ point # "none")
         /\ UNCHANGED <<isSpeaking, timers, events>>
  ELSE UNCHANGED <<isSpeaking, timers, engine, events, lastStarted, thrown>>

speak(text) ==
  /\ lastRequest' = text
  /\ IF audioModule = "audioUtils" THEN SpeakUtils(text) ELSE SpeakAudio(text)

\* the callback audioUtils.speak passed to setTimeout(..., 100)
TimerGuardAlways(flag) == TRUE
TimerGuard(flag) == ~flag

SpeakTimer ==
  /\ timers # <<>>
  /\ timers' = Tail(timers)
  /\ IF TimerGuard(isSpeaking)
     THEN \E fails \in MayThrow :
            /\ isSpeaking' = TRUE
            /\ IF fails
               THEN UNCHANGED <<engine, lastStarted>>
               ELSE /\ engine' = Append(engine, Head(timers))
                    /\ lastStarted' = Head(timers)
     ELSE UNCHANGED <<isSpeaking, engine, lastStarted>>
  /\ issued' = <<>>
  /\ lastEvent' = "speakTimer"
  /\ eventArg' = 0
  /\ UNCHANGED <<staticVars, lifeVars, playbackVars, events, lastRequest, renderTimers,
                 bfVars, layoutVars, painted, thrown>>

\* the engine finishes (or fails) the utterance it is speaking
UtteranceDone ==
  /\ engine # <<>>
  /\ engine' = Tail(engine)
  /\ events' = IF audioModule = "audioUtils" THEN events + 1 ELSE events
  /\ events' <= MaxEvents
  /\ issued' = <<>>
  /\ lastEvent' = "utteranceDone"
  /\ eventArg' = 0
  /\ UNCHANGED <<staticVars, lifeVars, playbackVars, isSpeaking, timers, lastRequest,
                 lastStarted, renderTimers, bfVars, layoutVars, painted,
                 thrown>>

\* utterance.onend / utterance.onerror
UtteranceEvent ==
  /\ events > 0
  /\ events' = events - 1
  /\ isSpeaking' = FALSE
  /\ issued' = <<>>
  /\ lastEvent' = "utteranceEvent"
  /\ eventArg' = 0
  /\ UNCHANGED <<staticVars, lifeVars, playbackVars, timers, engine, lastRequest,
                 lastStarted, renderTimers, bfVars, layoutVars, painted,
                 thrown>>

\* ------------------------------------------------- Bellman-Ford diffing
BFNodes == {"A", "B", "C"}
BFEdges == {<<"A", "B">>, <<"A", "C">>, <<"C", "B">>}
start_node == "A"
Null == "null"

\* predecessor maps a trace step may carry: the start node has none and no
\* node is its own predecessor
BFPredMaps ==
  {m \in [BFNodes -> BFNodes \cup {Null}] :
     /\ m[start_node] = Null
     /\ \A n \in BFNodes : m[n] # n}

\* traces of n steps: no predecessor is known at the first step, and a
\* predecessor, once set, may change but is not withdrawn
BFTraces(n) ==
  {t \in [1 .. n -> BFPredMaps] :
     /\ \A nid \in BFNodes : t[1][nid] = Null
     /\ \A k \in 1 .. n - 1 : \A nid \in BFNodes :
          t[k][nid] # Null => t[k + 1][nid] # Null}

\* `${u}->${v}`
EdgeKey(u, v) == <<u, "->", v>>

\* nodes the effect collects as newly settled when it shows step `curr` after
\* step `prev`
NewlySettled(prev, curr) ==
  {nid \in BFNodes : prev[nid] = Null /\ curr[nid] # Null}

NewlySettledEdges(curr, newly) ==
  {EdgeKey(curr[v], v) : v \in {n \in newly : curr[n] # Null}}

\* what the effect paints with the visited colour
DrawnSettledNodes(nodesRef) == nodesRef \cup {start_node}
DrawnSettledEdges(edgesRef) ==
  {e \in BFEdges : EdgeKey(e[1], e[2]) \in edgesRef
                   \/ EdgeKey(e[2], e[1]) \in edgesRef}

Unseen == <<{"?"}, {}>>

\* the Bellman-Ford step effect, run for step index i
BFUpdate(i) ==
  LET curr == bfSteps[i + 1]
      prev == bfSteps[prevStepIndexRef + 1]
      newly == NewlySettled(prev, curr)
      nodesRef == settledNodesRef \cup newly
      edgesRef == settledEdgesRef \cup NewlySettledEdges(curr, newly)
  IN /\ newlySettledNodes' = newly
     /\ settledNodesRef' = nodesRef
     /\ settledEdgesRef' = edgesRef
     /\ prevStepIndexRef' = i
     /\ firstDrawn' =
          IF firstDrawn[i] = Unseen
          THEN [firstDrawn EXCEPT
                  ![i] = <<DrawnSettledNodes(nodesRef), DrawnSettledEdges(edgesRef)>>]
          ELSE firstDrawn

\* ----------------------------------------------- Floyd-Warshall matrix
FWNodes == <<"A", "B">>
FWIds == {FWNodes[k] : k \in 1 .. Len(FWNodes)}
FWCells == FWIds \X FWIds
INF == 999999
FWDistValues == {1}   \* distances a trace carries
Missing == -1         \* the pair is absent from state.distances
NoCell == <<"", "">>  \* null

\* state.distances objects (nested style) and updated_cell values of a step
FWDistances == [FWCells -> {Missing} \cup FWDistValues]
FWExplicit == {NoCell, <<"B", "A">>}
FWStepStates == [distances : FWDistances, updated_cell : FWExplicit]

\* parseDistances: the matrix, every absent pair filled in
parseDistances(distObj) ==
  [cell \in FWCells |->
     IF distObj[cell] # Missing THEN distObj[cell]
     ELSE IF cell[1] = cell[2] THEN 0 ELSE INF]

\* Object.keys(matrix[i]): the columns the object carried, then the ones
\* filled in, each in node order
MatrixRowKeys(distObj, i) ==
  SelectSeq(FWNodes, LAMBDA j : distObj[<<i, j>>] # Missing)
    \o SelectSeq(FWNodes, LAMBDA j : distObj[<<i, j>>] = Missing)

\* the order in which detectUpdatedCell's two loops visit the cells
RECURSIVE ScanOrder(_, _)
ScanOrder(distObj, rows) ==
  IF rows = <<>> THEN <<>>
  ELSE LET keys == MatrixRowKeys(distObj, Head(rows))
       IN [k \in 1 .. Len(keys) |-> <<Head(rows), keys[k]>>]
            \o ScanOrder(distObj, Tail(rows))

RECURSIVE FirstDiffering(_, _, _)
FirstDiffering(scan, p, c) ==
  IF scan = <<>> THEN NoCell
  ELSE IF p[Head(scan)] # c[Head(scan)] THEN Head(scan)
  ELSE FirstDiffering(Tail(scan), p, c)

RECURSIVE LastDiffering(_, _, _)
LastDiffering(scan, p, c) ==
  IF scan = <<>> THEN NoCell
  ELSE IF p[scan[Len(scan)]] # c[scan[Len(scan)]] THEN scan[Len(scan)]
  ELSE LastDiffering(SubSeq(scan, 1, Len(scan) - 1), p, c)

\* detectUpdatedCell(prev, curr); hasPrev is FALSE when prev is null
detectUpdatedCellLast(hasPrev, prev, curr) ==
  IF ~hasPrev THEN NoCell
  ELSE LastDiffering(ScanOrder(prev, FWNodes),
                     parseDistances(prev), parseDistances(curr))
detectUpdatedCell(hasPrev, prev, curr) ==
  IF ~hasPrev THEN NoCell
  ELSE FirstDiffering(ScanOrder(prev, FWNodes),
                      parseDistances(prev), parseDistances(curr))

\* (a renderMatrix that prefers the inferred cell to the explicit one)
ChangedCellInferredFirst(stepIdx) ==
  LET step == fwSteps[stepIdx + 1]
      explicit == step.updated_cell
      inferred == detectUpdatedCell(stepIdx > 0,
                                    fwSteps[Max(stepIdx, 1)].distances,
                                    step.distances)
  IN IF inferred # NoCell THEN inferred ELSE explicit

\* renderMatrix: the cell named `changed`
ChangedCell(stepIdx) ==
  LET step == fwSteps[stepIdx + 1]
      explicit == step.updated_cell
      inferred == detectUpdatedCell(stepIdx > 0,
                                    fwSteps[Max(stepIdx, 1)].distances,
                                    step.distances)
  IN IF explicit # NoCell THEN explicit ELSE inferred

\* renderMatrix: the cells drawn with the changed background
HighlightedCells(stepIdx) ==
  {cell \in FWCells : ChangedCell(stepIdx) # NoCell
                      /\ ChangedCell(stepIdx)[1] = cell[1]
                      /\ ChangedCell(stepIdx)[2] = cell[2]}

\* ------------------------------------------------------ visual encoding
SortLen == 3                       \* state.array.length
Indices == 0 .. SortLen - 1
GraphNodes == {"A", "B", "C"}      \* input.nodes of the graph searches
NoSuggestion == ""                 \* next_suggestion: null
UnknownId == "Z"                   \* an id that names no node of the graph
Undefined == <<-1>>                \* state.comparing absent

SortKinds == {"SelectionSort", "InsertionSort", "QuickSort"}
GraphKinds == {"BFS", "Prims"}
EncodeKinds == SortKinds \cup {"BubbleSort"} \cup GraphKinds

\* list.includes(x)
Includes(list, x) == \E k \in 1 .. Len(list) : list[k] = x

\* state.comparing: no index or two of them
ComparingLists ==
  {<<>>} \cup {c \in Indices \X Indices : c[1] # c[2]}

\* step states a trace may carry, per visualizer (the fields the drawing reads)
StepStates(v) ==
  CASE v = "SelectionSort" ->
         [sorted_count : 0 .. SortLen, min_index : Indices,
          comparing : ComparingLists, current_index : Indices]
    [] v = "InsertionSort" ->
         [sorted_count : 0 .. SortLen, key_index : Indices,
          comparing : ComparingLists, comparing_index : Indices,
          swapped : BOOLEAN]
    [] v = "QuickSort" ->
         [pivot_index : Indices,
          partition_range : {r \in Indices \X Indices : r[1] <= r[2]},
          comparing : ComparingLists]
    [] v = "BubbleSort" ->
         [sorted_count : 0 .. SortLen, swapped : BOOLEAN,
          comparing : ComparingLists \cup {Undefined}]
    [] v = "BFS" ->
         [visited : SUBSET GraphNodes,
          next_suggestion : GraphNodes \cup {NoSuggestion, UnknownId}]
    [] v = "Prims" ->
         [mst_nodes : SUBSET GraphNodes,
          next_suggestion : GraphNodes \cup {NoSuggestion, UnknownId}]

\* the first step of a trace: nothing sorted, compared or visited yet
FirstStep(v) ==
  CASE v = "SelectionSort" ->
         [sorted_count |-> 0, min_index |-> 0, comparing |-> <<>>,
          current_index |-> 0]
    [] v = "InsertionSort" ->
         [sorted_count |-> 1, key_index |-> 1, comparing |-> <<>>,
          comparing_index |-> 0, swapped |-> FALSE]
    [] v = "QuickSort" ->
         [pivot_index |-> SortLen - 1, partition_range |-> <<0, SortLen - 1>>,
          comparing |-> <<>>]
    [] v = "BubbleSort" ->
         [sorted_count |-> 0, swapped |-> FALSE, comparing |-> <<>>]
    [] v = "BFS" -> [visited |-> {}, next_suggestion |-> "A"]
    [] v = "Prims" -> [mst_nodes |-> {}, next_suggestion |-> "A"]

\* the fill callbacks of the bars
SelectionFill(state, index) ==
  IF index < state.sorted_count THEN "--sorted-color"
  ELSE IF index = state.min_index THEN "--min-color"
  ELSE IF Includes(state.comparing, index) THEN "--comparing-color"
  ELSE IF index = state.current_index THEN "--current-color"
  ELSE "--unsorted-color"

InsertionFill(state, index) ==
  IF index < state.sorted_count THEN "--sorted-color"
  ELSE IF index = state.key_index THEN "--key-color"
  ELSE IF Includes(state.comparing, index) THEN "--comparing-color"
  ELSE IF index = state.comparing_index /\ state.swapped
       THEN "--shifted-color"
  ELSE "--unsorted-color"

QuickFill(state, index) ==
  IF index = state.pivot_index THEN "--pivot-color"
  ELSE IF index >= state.partition_range[1] /\ index <= state.partition_range[2]
       THEN IF Includes(state.comparing, index) THEN "--comparing-color"
            ELSE "--partition-color"
  ELSE "--sorted-color"

BubbleFillSortedFirst(state, index) ==
  IF index >= SortLen - state.sorted_count THEN "--sorted-color"
  ELSE IF state.comparing # Undefined /\ Includes(state.comparing, index)
       THEN IF state.swapped THEN "--swapped-color" ELSE "--comparing-color"
  ELSE "--unsorted-color"
BubbleFill(state, index) ==
  IF state.comparing # Undefined /\ Includes(state.comparing, index)
  THEN IF state.swapped THEN "--swapped-color" ELSE "--comparing-color"
  ELSE IF index >= SortLen - state.sorted_count THEN "--sorted-color"
  ELSE "--unsorted-color"

\* the fill and stroke callbacks of the graph-search nodes
GraphFill(visited, id) ==
  IF id \in visited THEN "--visited-color" ELSE "--node-color"

GraphStrokeUnvisitedOnly(visited, next_suggestion, id) ==
  IF id = next_suggestion /\ id \notin visited THEN "--ai-color"
  ELSE "--stroke-color"
GraphStroke(visited, next_suggestion, id) ==
  IF id = next_suggestion THEN "--ai-color" ELSE "--stroke-color"

\* state.visited (BFS, DFS), state.mst_nodes (Prim's); only membership is read
VisitedOf(v, state) == IF v = "Prims" THEN state.mst_nodes ELSE state.visited

\* what the drawing effect gives every bar or node for a step
PaintStep(v, state) ==
  CASE v = "SelectionSort" -> [idx \in Indices |-> SelectionFill(state, idx)]
    [] v = "InsertionSort" -> [idx \in Indices |-> InsertionFill(state, idx)]
    [] v = "QuickSort" -> [idx \in Indices |-> QuickFill(state, idx)]
    [] v = "BubbleSort" -> [idx \in Indices |-> BubbleFill(state, idx)]
    [] OTHER ->
         [id \in GraphNodes |->
            [fill |-> GraphFill(VisitedOf(v, state), id),
             stroke |-> GraphStroke(VisitedOf(v, state),
                                    state.next_suggestion, id)]]

\* Bellman-Ford: the fill of every node
PaintBF(nodesRef) ==
  [id \in BFNodes |->
     IF id \in DrawnSettledNodes(nodesRef) THEN "--bellman-visited-color"
     ELSE "--bellman-node-color"]

\* ------------------------------------------------------ merge-sort tree
MaxArray == 4                      \* longest input array explored
ArrayValues == {1, 2}              \* values an input array holds
InputArrays == UNION {[1 .. n -> ArrayValues] : n \in 0 .. MaxArray}

\* String(n) for n >= 0, one character per element
DigitChars == <<"0", "1", "2", "3", "4", "5", "6", "7", "8", "9">>
RECURSIVE numberString(_)
numberString(n) ==
  IF n < 10 THEN <<DigitChars[n + 1]>>
  ELSE numberString(n \div 10) \o <<DigitChars[(n % 10) + 1]>>

\* arr.join(',')
RECURSIVE join(_)
join(arr) ==
  IF arr = <<>> THEN <<>>
  ELSE IF Len(arr) = 1 THEN numberString(arr[1])
  ELSE numberString(arr[1]) \o <<",">> \o join(Tail(arr))

\* `${level}-${arr.join(',')}`
NodeId(level, arr) == numberString(level) \o <<"-">> \o join(arr)

\* Math.floor(arr.length / 2)
MidCeil(arr) == (Len(arr) + 1) \div 2
Mid(arr) == Len(arr) \div 2

\* createTreeStructure: the nodes of the tree it returns, in pre-order; the
\* path from the root (0 first child, 1 second child) stands for the node's
\* parent and children links
RECURSIVE createTreeStructure(_, _, _)
createTreeStructure(arr, level, path) ==
  LET node == [id |-> NodeId(level, arr), array |-> arr, level |-> level,
               isLeaf |-> (Len(arr) = 1), isSorted |-> (Len(arr) = 1),
               path |-> path]
  IN IF Len(arr) > 1
     THEN <<node>>
            \o createTreeStructure(SubSeq(arr, 1, Mid(arr)), level + 1,
                                   Append(path, 0))
            \o createTreeStructure(SubSeq(arr, Mid(arr) + 1, Len(arr)),
                                   level + 1, Append(path, 1))
     ELSE <<node>>

\* ------------------------------------------------ the step effect
\* the effect of the mounted component, run for the values i, l of the new
\* render
RunEffect(i, l) ==
  /\ issued' = <<SpokenText(i, l)>>
  /\ IF viz = "MergeSortTree"
     THEN /\ Len(renderTimers) + Len(timers) < MaxTimers
          /\ renderTimers' = Append(renderTimers, SpokenText(i, l))
          /\ UNCHANGED audioVars
     ELSE /\ CanSpeak
          /\ speak(SpokenText(i, l))
          /\ UNCHANGED renderTimers
  /\ IF viz = "BellmanFord" THEN BFUpdate(i) ELSE UNCHANGED bfVars
  /\ painted' = IF viz = "BellmanFord" THEN PaintBF(settledNodesRef')
                ELSE IF encSteps = <<>> THEN painted
                ELSE PaintStep(viz, encSteps[i + 1])

SkipEffect ==
  /\ issued' = <<>>
  /\ UNCHANGED <<audioVars, renderTimers, bfVars, painted>>

\* ------------------------------------------------------- drawing layout
\* state whose change re-runs the effect that builds the drawing (clears the
\* svg, creates the node data and lays it out).  Prim's and Bellman-Ford
\* build it once; Floyd-Warshall's effect depends on arrays that every render
\* creates anew, so every state change re-runs it
LayoutDeps(v) ==
  IF v \in {"Prims", "BellmanFord"} THEN {}
  ELSE IF v = "MergeSortTree"
       THEN {"stepIndex", "explanationLevel", "theme", "resetKey"}
  ELSE {"stepIndex", "explanationLevel", "theme"}

\* positions: the one the layout computes from the data, and the one a drag
\* left the node at
LaidOut == "laidOut"
Dragged == "dragged"

\* the drawing is built again: fresh node data in the computed layout; the
\* callbacks still pending belong to the discarded nodes
BuildLayout ==
  /\ nodePos' = LaidOut
  /\ fx' = FALSE
  /\ transitionEnd' = 0
  /\ UNCHANGED dragging

LayoutEffect(dep, changed) ==
  IF changed /\ dep \in LayoutDeps(viz) THEN BuildLayout
  ELSE UNCHANGED layoutVars

\* a state setter was called: React re-renders and re-runs the effects only
\* when the value changed and the effect depends on it
AfterSet(dep, changed, i, l) ==
  /\ IF changed /\ dep \in SpeakDeps(viz) THEN RunEffect(i, l) ELSE SkipEffect
  /\ LayoutEffect(dep, changed)

\* the node click handler of BFS and DFS: pin, bounce, unpin when the second
\* transition ends; a new click interrupts the transition still running
HasClickHandler(v) == v = "BFS"

NodeClick ==
  /\ HasClickHandler(viz)
  /\ fx' = TRUE
  /\ transitionEnd' = 1
  /\ lastEvent' = "nodeClick"
  /\ eventArg' = 0
  /\ issued' = <<>>
  /\ UNCHANGED <<staticVars, lifeVars, playbackVars, audioVars, renderTimers, bfVars,
                 painted, nodePos, dragging>>

TransitionEnd ==
  /\ transitionEnd > 0
  /\ transitionEnd' = transitionEnd - 1
  /\ fx' = FALSE
  /\ lastEvent' = "transitionEnd"
  /\ eventArg' = 0
  /\ issued' = <<>>
  /\ UNCHANGED <<staticVars, lifeVars, playbackVars, audioVars, renderTimers, bfVars,
                 painted, nodePos, dragging>>

\* d3.drag handlers; the merge-sort tree moves the node itself and has no pin
DragStart ==
  /\ ~dragging
  /\ dragging' = TRUE
  /\ fx' = IF viz = "MergeSortTree" THEN fx ELSE TRUE
  /\ lastEvent' = "dragStart"
  /\ eventArg' = 0
  /\ issued' = <<>>
  /\ UNCHANGED <<staticVars, lifeVars, playbackVars, audioVars, renderTimers, bfVars,
                 painted, nodePos, transitionEnd>>

DragMove ==
  /\ dragging
  /\ nodePos' = Dragged
  /\ fx' = IF viz = "MergeSortTree" THEN fx ELSE TRUE
  /\ lastEvent' = "drag"
  /\ eventArg' = 0
  /\ issued' = <<>>
  /\ UNCHANGED <<staticVars, lifeVars, playbackVars, audioVars, renderTimers, bfVars,
                 painted, dragging, transitionEnd>>

DragEnd ==
  /\ dragging
  /\ dragging' = FALSE
  /\ fx' = IF viz = "MergeSortTree" THEN fx ELSE FALSE
  /\ lastEvent' = "dragEnd"
  /\ eventArg' = 0
  /\ issued' = <<>>
  /\ UNCHANGED <<staticVars, lifeVars, playbackVars, audioVars, renderTimers, bfVars,
                 painted, nodePos, transitionEnd>>

\* the merge-sort-tree effect's setTimeout(..., 200) callback
RenderTimer ==
  /\ renderTimers # <<>>
  /\ events + Len(engine) <= MaxEvents
  /\ renderTimers' = Tail(renderTimers)
  /\ speak(Head(renderTimers))
  /\ issued' = <<>>
  /\ lastEvent' = "renderTimer"
  /\ eventArg' = 0
  /\ UNCHANGED <<staticVars, lifeVars, playbackVars, bfVars, layoutVars, painted>>

\* ------------------------------------------------------------- handlers
ClickPrev ==
  /\ stepIndex' = PrevIndex(stepIndex)
  /\ lastEvent' = "prev"
  /\ eventArg' = 0
  /\ UNCHANGED <<staticVars, positionsRef, nodeXY, mounted, batchCount,
                 explanationLevel, theme, resetKey>>
  /\ captured' = stepIndex'
  /\ AfterSet("stepIndex", stepIndex' # stepIndex, stepIndex', explanationLevel)

\* (a Next button that is disabled at the last step)
ClickNextDisabledAtEnd ==
  /\ stepIndex < N - 1
  /\ stepIndex' = NextIndex(stepIndex, N)
  /\ lastEvent' = "next"
  /\ eventArg' = 0
  /\ UNCHANGED <<staticVars, positionsRef, nodeXY, mounted, batchCount,
                 explanationLevel, theme, resetKey>>
  /\ captured' = stepIndex'
  /\ AfterSet("stepIndex", stepIndex' # stepIndex, stepIndex', explanationLevel)
ClickNext ==
  /\ stepIndex' = NextIndex(stepIndex, N)
  /\ lastEvent' = "next"
  /\ eventArg' = 0
  /\ UNCHANGED <<staticVars, positionsRef, nodeXY, mounted, batchCount,
                 explanationLevel, theme, resetKey>>
  /\ captured' = stepIndex'
  /\ AfterSet("stepIndex", stepIndex' # stepIndex, stepIndex', explanationLevel)

ClickDetail ==
  /\ explanationLevel' = ToggleLevel(explanationLevel)
  /\ lastEvent' = "detail"
  /\ eventArg' = 0
  /\ UNCHANGED <<staticVars, positionsRef, nodeXY, mounted, batchCount,
                 stepIndex, theme, resetKey>>
  /\ captured' = stepIndex'
  /\ AfterSet("explanationLevel", explanationLevel' # explanationLevel,
              stepIndex, explanationLevel')

ClickTheme ==
  /\ theme' = ToggleTheme(theme)
  /\ lastEvent' = "theme"
  /\ eventArg' = 0
  /\ UNCHANGED <<staticVars, positionsRef, nodeXY, mounted, batchCount,
                 stepIndex, explanationLevel, resetKey>>
  /\ captured' = stepIndex'
  /\ AfterSet("theme", theme' # theme, stepIndex, explanationLevel)

\* merge-sort-tree only: the step slider; pos is the position the user asks for
SliderSeek ==
  /\ viz = "MergeSortTree"
  /\ \E pos \in -1 .. N :
       /\ stepIndex' = parseInt(valueString(RangeValue(pos, 0, N - 1)))
       /\ eventArg' = pos
  /\ lastEvent' = "seek"
  /\ UNCHANGED <<staticVars, positionsRef, nodeXY, mounted, batchCount,
                 explanationLevel, theme, resetKey>>
  /\ captured' = stepIndex'
  /\ AfterSet("stepIndex", stepIndex' # stepIndex, stepIndex', explanationLevel)

\* merge-sort-tree only: the reset-layout button
ClickReset ==
  /\ viz = "MergeSortTree"
  /\ resetKey < MaxResetKey
  /\ resetKey' = resetKey + 1
  /\ lastEvent' = "reset"
  /\ eventArg' = 0
  /\ UNCHANGED <<staticVars, positionsRef, nodeXY, mounted, batchCount,
                 stepIndex, explanationLevel, theme>>
  /\ captured' = stepIndex'
  /\ AfterSet("resetKey", TRUE, stepIndex, explanationLevel)

\* ------------------------------------------- saved node positions
\* Prim's and the linked list keep the position of every node id in a ref and
\* read it back when the drawing is set up
NodeList == <<"A", "B", "C">>
NoEntry == <<"none", 0>>
\* the slot the setup computes for the node at index i of the node list
Slot(i) == <<"slot", i>>
SavedPositions == {<<"at", 1>>} \cup {Slot(i) : i \in 0 .. Len(NodeList) - 1}
PositionRefs == [GraphNodes -> SavedPositions \cup {NoEntry}]

\* (a loop body that ignores the saved position)
PlaceAlwaysSlot(saved, slot) == slot
\* the loop body: the saved position if there is one, else the slot
Place(saved, slot) == IF saved # NoEntry THEN saved ELSE slot

\* nodes.forEach((node, i) => ...): positionsRef.current and node.x, node.y
\* after the nodes at indices i .. Len(NodeList) - 1 were visited
RECURSIVE PositionLoop(_, _, _)
PositionLoop(ref, xy, i) ==
  IF i >= Len(NodeList) THEN [ref |-> ref, xy |-> xy]
  ELSE LET id == NodeList[i + 1]
           at == Place(ref[id], Slot(i))
       IN PositionLoop(IF ref[id] # NoEntry THEN ref
                       ELSE [ref EXCEPT ![id] = Slot(i)],
                       [xy EXCEPT ![id] = at], i + 1)

NoPositions == [id \in GraphNodes |-> NoEntry]

\* the setup effect runs its position loop
SetupPositions ==
  /\ viz = "Prims"
  /\ LET r == PositionLoop(positionsRef, NoPositions, 0)
     IN /\ positionsRef' = r.ref
        /\ nodeXY' = r.xy
  /\ issued' = <<>>
  /\ lastEvent' = "setupPositions"
  /\ eventArg' = 0
  /\ UNCHANGED <<staticVars, playbackVars, audioVars, renderTimers, bfVars,
                 layoutVars, painted, mounted, captured, batchCount>>

\* the refs and node positions once the component of this kind has mounted
PositionsMounted ==
  LET r == PositionLoop(NoPositions, NoPositions, 0)
  IN /\ positionsRef = IF viz = "Prims" THEN r.ref ELSE NoPositions
     /\ nodeXY = IF viz = "Prims" THEN r.xy ELSE NoPositions

\* ------------------------------------------------- events between renders
\* Prim's and the linked list pass setStepIndex a value computed from the
\* stepIndex of the render that created the handler; BFS and the others pass
\* an updater that React applies to the current state
StaleHandlers(v) == v = "Prims"
MaxBatch == 2       \* button events handled before one re-render

\* a Next click handled while the re-render of earlier events is pending
HandleNext ==
  /\ batchCount >= 0
  /\ batchCount < MaxBatch
  /\ batchCount' = batchCount + 1
  /\ stepIndex' = IF StaleHandlers(viz) THEN NextIndex(captured, N)
                  ELSE NextIndex(stepIndex, N)
  /\ issued' = <<>>
  /\ lastEvent' = "handleNext"
  /\ eventArg' = 0
  /\ UNCHANGED <<staticVars, explanationLevel, theme, resetKey, audioVars,
                 renderTimers, bfVars, layoutVars, painted, positionsRef,
                 nodeXY, mounted, captured>>

\* a Prev click handled while the re-render of earlier events is pending
HandlePrev ==
  /\ batchCount <= 0
  /\ batchCount > -MaxBatch
  /\ batchCount' = batchCount - 1
  /\ stepIndex' = IF StaleHandlers(viz) THEN PrevIndex(captured)
                  ELSE PrevIndex(stepIndex)
  /\ issued' = <<>>
  /\ lastEvent' = "handlePrev"
  /\ eventArg' = 0
  /\ UNCHANGED <<staticVars, explanationLevel, theme, resetKey, audioVars,
                 renderTimers, bfVars, layoutVars, painted, positionsRef,
                 nodeXY, mounted, captured>>

\* React re-renders with the state the handled events left: new handlers
\* close over it, and the effects run if stepIndex changed
Render ==
  /\ batchCount # 0
  /\ batchCount' = 0
  /\ captured' = stepIndex
  /\ lastEvent' = "render"
  /\ eventArg' = 0
  /\ UNCHANGED <<staticVars, playbackVars, positionsRef, nodeXY, mounted>>
  /\ AfterSet("stepIndex", stepIndex # captured, stepIndex, explanationLevel)

\* ---------------------------------------------------------------- unmount
\* audioUtils.ts stopSpeaking: cancel and clear the flag; without the API, or
\* when cancel() throws, the catch block logs and the flag stays as it is
stopSpeaking ==
  \E fails \in (IF speechApi THEN MayThrow ELSE {TRUE}) :
    IF fails
    THEN UNCHANGED <<isSpeaking, engine, events>>
    ELSE /\ engine' = Cancel(engine)
         /\ events' = events + (Len(engine) - Len(Cancel(engine)))
         /\ isSpeaking' = FALSE

\* the merge-sort tree is unmounted: its cleanup calls stopSpeaking; the
\* timeouts already scheduled stay scheduled
Unmount ==
  /\ viz = "MergeSortTree"
  /\ mounted
  /\ mounted' = FALSE
  /\ stopSpeaking
  /\ issued' = <<>>
  /\ lastEvent' = "unmount"
  /\ eventArg' = 0
  /\ UNCHANGED <<staticVars, playbackVars, timers, lastRequest, lastStarted,
                 thrown, renderTimers, bfVars, layoutVars, painted,
                 positionsRef, nodeXY, captured, batchCount>>

\* ------------------------------------------------------------ the program
\* state after the component mounted and its effects ran once
Mounted ==
  /\ stepIndex = 0
  /\ explanationLevel = 0
  /\ theme = "light"
  /\ resetKey = 0
  /\ isSpeaking = FALSE
  /\ thrown = FALSE
  /\ mounted = TRUE
  /\ captured = 0
  /\ batchCount = 0
  /\ treeData = createTreeStructure(initialArray, 0, <<>>)
  /\ events = 0
  /\ issued = <<SpokenText(0, 0)>>
  /\ lastEvent = "mount"
  /\ eventArg = 0
  /\ IF viz = "MergeSortTree"
     THEN /\ renderTimers = <<SpokenText(0, 0)>>
          /\ timers = <<>>
          /\ engine = <<>>
          /\ lastRequest = NoText
          /\ lastStarted = NoText
     ELSE /\ renderTimers = <<>>
          /\ lastRequest = SpokenText(0, 0)
          /\ timers = IF speechApi /\ audioModule = "audioUtils"
                      THEN <<SpokenText(0, 0)>> ELSE <<>>
          /\ engine = IF speechApi /\ audioModule = "audio"
                      THEN <<SpokenText(0, 0)>> ELSE <<>>
          /\ lastStarted = IF speechApi /\ audioModule = "audio"
                           THEN SpokenText(0, 0) ELSE NoText
  /\ settledNodesRef = {}
  /\ settledEdgesRef = {}
  /\ prevStepIndexRef = 0
  /\ newlySettledNodes = {}
  /\ firstDrawn =
       IF viz = "BellmanFord"
       THEN [i \in 0 .. N - 1 |->
               IF i = 0 THEN <<DrawnSettledNodes({}), DrawnSettledEdges({})>>
               ELSE Unseen]
       ELSE <<>>
  /\ nodePos = LaidOut
  /\ fx = FALSE
  /\ dragging = FALSE
  /\ transitionEnd = 0
  /\ painted = IF viz = "BellmanFord" THEN PaintBF({})
               ELSE IF encSteps = <<>> THEN <<>>
               ELSE PaintStep(viz, encSteps[1])

\* any visualizer, any trace length; the Bellman-Ford trace of this
\* specification settles nothing (SpecBF explores the traces)
Init ==
  /\ viz \in VizKinds
  /\ audioModule \in AudioModules
  /\ speechApi \in BOOLEAN
  /\ N \in {1, MaxSteps}
  /\ bfSteps = IF viz = "BellmanFord"
               THEN [k \in 1 .. N |-> [n \in BFNodes |-> Null]] ELSE <<>>
  /\ fwSteps = <<>>
  /\ encSteps = <<>>
  /\ speechFails = FALSE
  /\ initialArray = <<>>
  /\ Mounted
  /\ PositionsMounted

Next ==
  \/ ClickPrev
  \/ ClickNext
  \/ ClickDetail
  \/ ClickTheme
  \/ SliderSeek
  \/ ClickReset
  \/ RenderTimer
  \/ SpeakTimer
  \/ UtteranceDone
  \/ UtteranceEvent

Spec == Init /\ [][Next]_vars

\* the Bellman-Ford visualizer over every trace of BFSteps steps, in a
\* browser without speech synthesis (speak then returns at once)
BFSteps == 3

InitBF ==
  /\ viz = "BellmanFord"
  /\ audioModule = "audioUtils"
  /\ speechApi = FALSE
  /\ N = BFSteps
  /\ bfSteps \in BFTraces(N)
  /\ fwSteps = <<>>
  /\ encSteps = <<>>
  /\ speechFails = FALSE
  /\ initialArray = <<>>
  /\ Mounted
  /\ PositionsMounted

NextBF ==
  \/ ClickPrev
  \/ ClickNext
  \/ ClickDetail
  \/ ClickTheme

SpecBF == InitBF /\ [][NextBF]_vars

\* the Floyd-Warshall visualizer over every trace of FWSteps steps, in a
\* browser without speech synthesis
FWSteps == 2

InitFW ==
  /\ viz = "FloydWarshall"
  /\ audioModule = "audioUtils"
  /\ speechApi = FALSE
  /\ N = FWSteps
  /\ bfSteps = <<>>
  /\ fwSteps \in [1 .. N -> FWStepStates]
  /\ encSteps = <<>>
  /\ speechFails = FALSE
  /\ initialArray = <<>>
  /\ Mounted
  /\ PositionsMounted

NextFW ==
  \/ ClickPrev
  \/ ClickNext

SpecFW == InitFW /\ [][NextFW]_vars

\* the sort and graph-search visualizers over every two-step trace that
\* starts with the first step, in a browser without speech synthesis
InitEncode ==
  /\ viz \in EncodeKinds
  /\ audioModule = "audioUtils"
  /\ speechApi = FALSE
  /\ N = 2
  /\ bfSteps = <<>>
  /\ fwSteps = <<>>
  /\ encSteps \in {<<FirstStep(viz), st>> : st \in StepStates(viz)}
  /\ speechFails = FALSE
  /\ initialArray = <<>>
  /\ Mounted
  /\ PositionsMounted

NextEncode ==
  \/ ClickPrev
  \/ ClickNext
  \/ ClickDetail
  \/ ClickTheme

SpecEncode == InitEncode /\ [][NextEncode]_vars

\* the merge-sort tree visualizer over every input array, in a browser
\* without speech synthesis
InitTree ==
  /\ viz = "MergeSortTree"
  /\ audioModule = "audioUtils"
  /\ speechApi = FALSE
  /\ N = MaxSteps
  /\ bfSteps = <<>>
  /\ fwSteps = <<>>
  /\ encSteps = <<>>
  /\ speechFails = FALSE
  /\ initialArray \in InputArrays
  /\ Mounted
  /\ PositionsMounted

NextTree ==
  \/ ClickPrev
  \/ ClickNext
  \/ ClickDetail
  \/ ClickTheme
  \/ SliderSeek
  \/ ClickReset
  \/ RenderTimer

SpecTree == InitTree /\ [][NextTree]_vars

\* a browser whose speech calls may throw, under either speak module; an
\* exception that reaches the effect takes the component off the page (no
\* error boundary), so no handler runs after it
InitFailure ==
  /\ viz = "BFS"
  /\ audioModule \in AudioModules
  /\ speechApi \in BOOLEAN
  /\ N = MaxSteps
  /\ bfSteps = <<>>
  /\ fwSteps = <<>>
  /\ encSteps = <<>>
  /\ speechFails = TRUE
  /\ initialArray = <<>>
  /\ Mounted
  /\ PositionsMounted

NextFailure ==
  \/ (~thrown /\ ClickPrev)
  \/ (~thrown /\ ClickNext)
  \/ (~thrown /\ ClickDetail)
  \/ (~thrown /\ ClickTheme)
  \/ SpeakTimer
  \/ UtteranceDone
  \/ UtteranceEvent

SpecFailure == InitFailure /\ [][NextFailure]_vars

\* the control panel (Prev, Next, detail, theme) of the Bellman-Ford, sort
\* and graph-search visualizers over their traces
InitPanel == InitBF \/ InitEncode

NextPanel ==
  \/ ClickPrev
  \/ ClickNext
  \/ ClickDetail
  \/ ClickTheme

SpecPanel == InitPanel /\ [][NextPanel]_vars

\* ------------------------------------------------ the bundled BFS trace
\* data/bfsData.ts: one entry of steps, with state.queue and state.visited
\* as fields of the step ("" is a null next_suggestion)
TraceStep(n, acts, q, v, s) ==
  [step_number |-> n, actions |-> acts, queue |-> q, visited |-> v,
   next_suggestion |-> s]

bfsStep1 ==
  TraceStep(1, <<"Start at node A. Add neighbors B and C to the queue.",
                 "Begin BFS from A. Queue updated with B and C.">>,
            <<"B", "C">>, <<"A">>, "B")
bfsStep2 ==
  TraceStep(2, <<"Visit node B. Add neighbor D to the queue.",
                 "Node B processed. Queue now: C, D.">>,
            <<"C", "D">>, <<"A", "B">>, "C")
bfsStep3 ==
  TraceStep(3, <<"Visit node C. Neighbor D already in queue, skip.",
                 "Process C. Queue unchanged: D.">>,
            <<"D">>, <<"A", "B", "C">>, "D")
bfsStep4 ==
  TraceStep(4, <<"Visit node D. Add neighbor E to the queue.",
                 "Process D. Queue updated: E.">>,
            <<"E">>, <<"A", "B", "C", "D">>, "E")
bfsStep5 ==
  TraceStep(5, <<"Visit node E. Queue empty, BFS complete.",
                 "Process E. BFS finished.">>,
            <<>>, <<"A", "B", "C", "D", "E">>, "")

\* (the trace with step 4 showing the state of step 3)
bfsDataStale ==
  [nodes |-> <<"A", "B", "C", "D", "E">>,
   steps |-> <<bfsStep1, bfsStep2, bfsStep3,
               [bfsStep4 EXCEPT !.queue = bfsStep3.queue,
                                !.visited = bfsStep3.visited,
                                !.next_suggestion = bfsStep3.next_suggestion],
               bfsStep5>>]
\* (the trace numbered from 0)
bfsDataZeroBased ==
  [nodes |-> <<"A", "B", "C", "D", "E">>,
   steps |-> <<[bfsStep1 EXCEPT !.step_number = 0],
               [bfsStep2 EXCEPT !.step_number = 1],
               [bfsStep3 EXCEPT !.step_number = 2],
               [bfsStep4 EXCEPT !.step_number = 3],
               [bfsStep5 EXCEPT !.step_number = 4]>>]
bfsData ==
  [nodes |-> <<"A", "B", "C", "D", "E">>,
   steps |-> <<bfsStep1, bfsStep2, bfsStep3, bfsStep4, bfsStep5>>]

\* const step = steps[stepIndex]: what the state panel shows
ShownState(steps, i) ==
  [queue |-> steps[i + 1].queue, visited |-> steps[i + 1].visited]

\* the BFS visualizer on the bundled trace, in a browser without speech
\* synthesis; the playback handlers run between drag gestures
InitBFS ==
  /\ viz = "BFS"
  /\ audioModule = "audioUtils"
  /\ speechApi = FALSE
  /\ N = Len(bfsData.steps)
  /\ bfSteps = <<>>
  /\ fwSteps = <<>>
  /\ encSteps = <<>>
  /\ speechFails = FALSE
  /\ initialArray = <<>>
  /\ Mounted
  /\ PositionsMounted

NextBFS ==
  \/ (~dragging /\ ClickPrev)
  \/ (~dragging /\ ClickNext)
  \/ (~dragging /\ ClickDetail)
  \/ (~dragging /\ ClickTheme)
  \/ (~dragging /\ NodeClick)
  \/ TransitionEnd
  \/ DragStart
  \/ DragMove
  \/ DragEnd

SpecBFS == InitBFS /\ [][NextBFS]_vars

\* the drawing under drags, node clicks and playback: every visualizer, in a
\* browser without speech synthesis.  The pointer that holds a node cannot
\* click a button, so the playback handlers run between gestures
LayoutKinds == VizKinds \cup {"Prims"}

InitLayout ==
  /\ viz \in LayoutKinds
  /\ audioModule = "audioUtils"
  /\ speechApi = FALSE
  /\ N = MaxSteps
  /\ bfSteps = IF viz = "BellmanFord"
               THEN [k \in 1 .. N |-> [n \in BFNodes |-> Null]] ELSE <<>>
  /\ fwSteps = <<>>
  /\ encSteps = <<>>
  /\ speechFails = FALSE
  /\ initialArray = <<>>
  /\ Mounted
  /\ PositionsMounted

NextLayout ==
  \/ (~dragging /\ ClickPrev)
  \/ (~dragging /\ ClickNext)
  \/ (~dragging /\ ClickDetail)
  \/ (~dragging /\ ClickTheme)
  \/ (~dragging /\ SliderSeek)
  \/ RenderTimer
  \/ (~dragging /\ NodeClick)
  \/ TransitionEnd
  \/ DragStart
  \/ DragMove
  \/ DragEnd

SpecLayout == InitLayout /\ [][NextLayout]_vars

\* ------------------------------------------------------------ properties

\* C1: whatever sequence of Next, Prev, slider-seek, toggle-detail,
\* toggle-theme and reset-layout events was handled, stepIndex is in
\* [0, N-1], the detail level is 0 or 1 and the theme is light or dark.
C1_PlaybackStateInRange ==
  /\ N >= 1
  /\ stepIndex >= 0 /\ stepIndex <= N - 1
  /\ explanationLevel \in Levels
  /\ theme \in Themes

C1_Witness ==
  /\ lastEvent = "seek"
  /\ resetKey = 1
  /\ N = MaxSteps
  /\ stepIndex = N - 1
  /\ explanationLevel = 1
  /\ theme = "dark"

\* C2: Next moves from i < N-1 to exactly i+1 and is a no-op at i = N-1;
\* it never touches the detail level or the theme.
C2_NextClamps ==
  [][lastEvent' = "next" =>
       /\ stepIndex' = (IF stepIndex < N - 1 THEN stepIndex + 1 ELSE stepIndex)
       /\ explanationLevel' = explanationLevel
       /\ theme' = theme]_vars

C2_Witness ==
  /\ lastEvent = "next"
  /\ N >= 2
  /\ stepIndex = N - 1
  /\ issued = <<>>

\* C3: Prev moves from i > 0 to exactly i-1 and is a no-op at i = 0; it never
\* touches the detail level or the theme.
C3_PrevClamps ==
  [][lastEvent' = "prev" =>
       /\ stepIndex' = (IF stepIndex > 0 THEN stepIndex - 1 ELSE stepIndex)
       /\ explanationLevel' = explanationLevel
       /\ theme' = theme]_vars

C3_Witness ==
  /\ lastEvent = "prev"
  /\ N >= 2
  /\ stepIndex = 0
  /\ issued = <<>>

\* C4: a slider seek to any position, also one below 0 or at or above N,
\* leaves stepIndex at that position clamped into [0, N-1].
C4_SeekClamps ==
  lastEvent = "seek" =>
    /\ stepIndex >= 0 /\ stepIndex <= N - 1
    /\ eventArg < 0 => stepIndex = 0
    /\ eventArg > N - 1 => stepIndex = N - 1
    /\ (eventArg >= 0 /\ eventArg <= N - 1) => stepIndex = eventArg

C4_Witness ==
  /\ lastEvent = "seek"
  /\ eventArg = N
  /\ N >= 2
  /\ stepIndex = N - 1

\* C5: a transition that changes stepIndex or the detail level sets off
\* exactly one speak call, with the text of the new step at the new level
\* (the merge-sort tree hands it to its 200 ms timer, the others call speak
\* at once); a clamped no-op Next or Prev sets off none.
C5_OneSpeakPerChange ==
  [][/\ (stepIndex' # stepIndex \/ explanationLevel' # explanationLevel) =>
          /\ issued' = <<Text(stepIndex', explanationLevel')>>
          /\ IF viz = "MergeSortTree"
             THEN renderTimers' =
                    Append(renderTimers, Text(stepIndex', explanationLevel'))
             ELSE /\ lastRequest' = Text(stepIndex', explanationLevel')
                  /\ renderTimers' = renderTimers
     /\ (lastEvent' \in {"next", "prev"} /\ stepIndex' = stepIndex) =>
          /\ issued' = <<>>
          /\ UNCHANGED <<audioVars, renderTimers>>]_vars

C5_Witness ==
  /\ lastEvent = "detail"
  /\ stepIndex > 0
  /\ explanationLevel = 1
  /\ issued = <<Text(stepIndex, 1)>>

\* C6: the speech engine never holds more than one utterance, however speak
\* calls, their 100 ms callbacks and the utterances' onend/onerror callbacks
\* interleave.
C6_AtMostOneUtterance == Len(engine) <= 1

C6_Witness ==
  /\ audioModule = "audioUtils"
  /\ Len(engine) = 1
  /\ timers # <<>>
  /\ lastRequest # lastStarted

\* C7: once every scheduled callback has run, the utterance that was started
\* last is the text of the latest speak call.
C7_LatestRequestSpoken ==
  (speechApi /\ timers = <<>> /\ renderTimers = <<>> /\ lastRequest # NoText)
    => lastStarted = lastRequest

\* C8: in the Bellman-Ford visualizer the nodes and edges drawn as settled
\* at a step are the ones drawn when that step was first shown, whatever
\* steps were shown in between.
C8_SettledIsPure ==
  viz = "BellmanFord" =>
    firstDrawn[stepIndex] =
      <<DrawnSettledNodes(settledNodesRef), DrawnSettledEdges(settledEdgesRef)>>

\* cells whose parsed distance differs between steps i-1 and i
FWDiff(i) ==
  {cell \in FWCells :
     parseDistances(fwSteps[i].distances)[cell]
       # parseDistances(fwSteps[i + 1].distances)[cell]}

ScanPos(i, cell) ==
  CHOOSE k \in 1 .. Len(ScanOrder(fwSteps[i].distances, FWNodes)) :
    ScanOrder(fwSteps[i].distances, FWNodes)[k] = cell

C10_NewlySettledIsDiff ==
  (viz = "BellmanFord" /\ lastEvent \in {"mount", "next", "prev"}
     /\ issued # <<>>) =>
    newlySettledNodes =
      IF stepIndex = 0 THEN {}
      ELSE {n \in BFNodes : bfSteps[stepIndex + 1][n] # bfSteps[stepIndex][n]}

\* C11: a Next, Prev, seek, toggle-detail or toggle-theme transition leaves
\* the node where it was, also where an earlier, finished drag left it.
C11_LayoutStable ==
  [][lastEvent' \in {"next", "prev", "seek", "detail", "theme"}
       => nodePos' = nodePos]_vars

\* C12: in the graph visualizers the node is pinned at every moment between
\* its drag-start and its drag-end, whatever other callbacks on the node run
\* in between.
C12_PinnedWhileDragging ==
  (dragging /\ viz # "MergeSortTree") => fx

\* C13: on the bundled BFS trace (N = 5) step 0 shows queue [B, C] and
\* visited [A]; every Next below the last step moves one step on, so three
\* Next calls from step 0 reach step 3, which shows queue [E] and visited
\* [A, B, C, D]; the fourth reaches step 4, which shows an empty queue and
\* visited [A, B, C, D, E]; a Next at step 4 leaves stepIndex at 4.
C13_BundledTraceShown ==
  /\ N = 5
  /\ NextIndex(NextIndex(NextIndex(0, N), N), N) = 3
  /\ NextIndex(3, N) = 4
  /\ NextIndex(4, N) = 4
  /\ stepIndex = 0 =>
       ShownState(bfsData.steps, stepIndex)
         = [queue |-> <<"B", "C">>, visited |-> <<"A">>]
  /\ stepIndex = 3 =>
       ShownState(bfsData.steps, stepIndex)
         = [queue |-> <<"E">>, visited |-> <<"A", "B", "C", "D">>]
  /\ stepIndex = 4 =>
       ShownState(bfsData.steps, stepIndex)
         = [queue |-> <<>>, visited |-> <<"A", "B", "C", "D", "E">>]
  /\ lastEvent = "next" => stepIndex >= 1
  /\ (lastEvent = "next" /\ issued = <<>>) => stepIndex = 4

C13_Witness ==
  /\ viz = "BFS"
  /\ N = Len(bfsData.steps)
  /\ lastEvent = "next"
  /\ stepIndex = 4
  /\ issued = <<>>
  /\ explanationLevel = 0
  /\ theme = "light"
  /\ transitionEnd = 0 /\ ~fx

\* the categories of a sort drawing, read off a step state
SortRoleIndex(v, state) ==
  CASE v = "SelectionSort" -> state.min_index
    [] v = "InsertionSort" -> state.key_index
    [] v = "QuickSort" -> state.pivot_index

SortRoleFill(v) ==
  CASE v = "SelectionSort" -> "--min-color"
    [] v = "InsertionSort" -> "--key-color"
    [] v = "QuickSort" -> "--pivot-color"

InSortedRegion(v, state, idx) ==
  IF v = "QuickSort"
  THEN idx < state.partition_range[1] \/ idx > state.partition_range[2]
  ELSE idx < state.sorted_count

\* C14: in the selection, insertion and quick sort drawings the fill of an
\* index follows role (min / key / pivot) > comparing > sorted > unsorted:
\* the role index gets the role fill also inside the sorted region, and a
\* compared index gets the comparing fill also inside the sorted region.
C14_RoleComparingSorted ==
  viz \in SortKinds =>
    \A idx \in Indices :
      LET state == encSteps[stepIndex + 1]
      IN IF idx = SortRoleIndex(viz, state)
         THEN painted[idx] = SortRoleFill(viz)
         ELSE IF Includes(state.comparing, idx)
         THEN painted[idx] = "--comparing-color"
         ELSE IF InSortedRegion(viz, state, idx)
         THEN painted[idx] = "--sorted-color"
         ELSE painted[idx] \notin
                {SortRoleFill(viz), "--comparing-color", "--sorted-color"}

\* C15: in the bubble-sort drawing, at a step with swapped = true and
\* comparing = [i, i+1], indices i and i+1 have the swapped fill, also in
\* the sorted suffix, and no other index has it.
C15_SwappedPairPainted ==
  viz = "BubbleSort" =>
    LET state == encSteps[stepIndex + 1]
    IN (/\ state.swapped
        /\ state.comparing # Undefined
        /\ Len(state.comparing) = 2
        /\ state.comparing[2] = state.comparing[1] + 1) =>
         \A idx \in Indices :
           painted[idx] = "--swapped-color"
             <=> idx \in {state.comparing[1], state.comparing[2]}

C15_Witness ==
  /\ viz = "BubbleSort"
  /\ lastEvent = "next"
  /\ stepIndex = 1
  /\ encSteps[2].swapped
  /\ encSteps[2].comparing = <<1, 2>>
  /\ encSteps[2].sorted_count = 2
  /\ painted[1] = "--swapped-color"
  /\ painted[2] = "--swapped-color"
  /\ painted[0] = "--unsorted-color"

\* C16: in the graph-search drawings a node has the visited fill iff it is
\* in the step's visited (mst_nodes) list and the suggestion stroke iff it
\* is the step's next_suggestion; a node that is both has both.
C16_FillStrokeIndependent ==
  viz \in GraphKinds =>
    \A id \in GraphNodes :
      LET state == encSteps[stepIndex + 1]
      IN /\ painted[id].fill = "--visited-color"
              <=> id \in VisitedOf(viz, state)
         /\ painted[id].stroke = "--ai-color"
              <=> id = state.next_suggestion

C16_Witness ==
  /\ viz \in GraphKinds
  /\ lastEvent = "next"
  /\ stepIndex = 1
  /\ encSteps[2].next_suggestion = "B"
  /\ "B" \in VisitedOf(viz, encSteps[2])
  /\ painted["B"] = [fill |-> "--visited-color", stroke |-> "--ai-color"]
  /\ painted["C"] = [fill |-> "--node-color", stroke |-> "--stroke-color"]

\* C17: a theme toggle flips the theme between light and dark and leaves
\* stepIndex, the detail level and every entity's painted category as they
\* were; in Bellman-Ford the settled node and edge sets, and what is drawn
\* as settled, are the same before and after.
C17_ThemeToggleFrame ==
  [][lastEvent' = "theme" =>
       /\ theme' \in Themes /\ theme' # theme
       /\ stepIndex' = stepIndex
       /\ explanationLevel' = explanationLevel
       /\ painted' = painted
       /\ settledNodesRef' = settledNodesRef
       /\ settledEdgesRef' = settledEdgesRef
       /\ DrawnSettledNodes(settledNodesRef') = DrawnSettledNodes(settledNodesRef)
       /\ DrawnSettledEdges(settledEdgesRef') = DrawnSettledEdges(settledEdgesRef)
    ]_vars

C17_Witness ==
  /\ viz = "BellmanFord"
  /\ lastEvent = "theme"
  /\ theme = "light"
  /\ stepIndex > 0
  /\ settledNodesRef # {}
  /\ settledEdgesRef # {}
  /\ newlySettledNodes = {}

\* C18: a detail toggle flips the level (0 -> 1, 1 -> 0), a second toggle
\* would restore the level it started from, and stepIndex and the theme
\* stay as they were.
C18_ToggleDetailInvolution ==
  [][lastEvent' = "detail" =>
       /\ explanationLevel' = 1 - explanationLevel
       /\ ToggleLevel(explanationLevel') = explanationLevel
       /\ stepIndex' = stepIndex
       /\ theme' = theme]_vars

C18_Witness ==
  /\ viz = "Prims"
  /\ lastEvent = "detail"
  /\ explanationLevel = 0
  /\ issued = <<Text(stepIndex, 0)>>
  /\ stepIndex = N - 1
  /\ theme = "dark"
  /\ nodePos = Dragged

\* C19: a visualizer starts at stepIndex 0, detail level 0 and the light
\* theme, and in every reachable state, the last step included, Prev, Next
\* and both toggles can be clicked.
C19_StartsAndStaysInteractive ==
  /\ lastEvent = "mount" =>
       (stepIndex = 0 /\ explanationLevel = 0 /\ theme = "light")
  /\ ENABLED ClickPrev
  /\ ENABLED ClickNext
  /\ ENABLED ClickDetail
  /\ ENABLED ClickTheme

C19_Witness ==
  /\ viz \in SortKinds
  /\ lastEvent = "theme"
  /\ stepIndex = N - 1
  /\ N > 1
  /\ explanationLevel = 1
  /\ theme = "light"

\* C20: when the speech API is missing or a speech call throws, no error
\* leaves speak, and the transition that called it ends in the state it
\* ends in when narration works.
C20_NarrationFailureNonFatal ==
  [][lastEvent' \in {"next", "prev", "detail", "theme"} =>
       /\ ~thrown'
       /\ stepIndex' = (IF lastEvent' = "next" THEN NextIndex(stepIndex, N)
                        ELSE IF lastEvent' = "prev" THEN PrevIndex(stepIndex)
                        ELSE stepIndex)
       /\ explanationLevel' = (IF lastEvent' = "detail"
                               THEN ToggleLevel(explanationLevel)
                               ELSE explanationLevel)]_vars

\* C21: all tree nodes createTreeStructure produces for an input array have
\* pairwise distinct ids, also when the array repeats a value.
C21_TreeIdsUnique ==
  \A a \in 1 .. Len(treeData) : \A b \in 1 .. Len(treeData) :
    a # b => treeData[a].id # treeData[b].id

\* the tree nodes whose parent is the node at path p, left to right
ChildrenAt(tree, p) ==
  SelectSeq(tree, LAMBDA nd : Len(nd.path) = Len(p) + 1
                              /\ SubSeq(nd.path, 1, Len(p)) = p)

\* the arrays of the leaves (nodes without children), left to right, joined
RECURSIVE LeafElements(_, _)
LeafElements(tree, k) ==
  IF k > Len(tree) THEN <<>>
  ELSE (IF ChildrenAt(tree, tree[k].path) = <<>> THEN tree[k].array ELSE <<>>)
         \o LeafElements(tree, k + 1)

LeafCount(tree) ==
  Cardinality({k \in 1 .. Len(tree) : ChildrenAt(tree, tree[k].path) = <<>>})

\* C30: for an input array of length n >= 1 createTreeStructure returns a
\* binary tree: a node whose array is longer than one element has exactly
\* two children, holding the first floor(len/2) elements and the rest; every
\* leaf holds exactly one element; there are n leaves and, read left to
\* right, they are the input array; every node's level is its depth.  (That
\* the tree exists at all is the termination of createTreeStructure.)
C30_TreeShape ==
  Len(initialArray) >= 1 =>
    /\ treeData[1].path = <<>> /\ treeData[1].array = initialArray
    /\ \A k \in 1 .. Len(treeData) :
         LET nd == treeData[k]
             kids == ChildrenAt(treeData, nd.path)
             half == Len(nd.array) \div 2
         IN /\ nd.level = Len(nd.path)
            /\ IF Len(nd.array) > 1
               THEN /\ Len(kids) = 2
                    /\ kids[1].array = SubSeq(nd.array, 1, half)
                    /\ kids[2].array = SubSeq(nd.array, half + 1, Len(nd.array))
               ELSE /\ kids = <<>>
                    /\ Len(nd.array) = 1
                    /\ nd.isLeaf
    /\ LeafCount(treeData) = Len(initialArray)
    /\ LeafElements(treeData, 1) = initialArray

C30_Witness ==
  /\ viz = "MergeSortTree"
  /\ initialArray = <<2, 1, 1>>
  /\ Len(treeData) = 5
  /\ treeData[2].array = <<2>>
  /\ treeData[3].array = <<1, 1>>
  /\ lastEvent = "renderTimer"
  /\ lastRequest = Text(0, 0)

UnstyledCategory == "UnstyledCategory"

\* C22: the encoder gives every node a defined fill and stroke, and for a
\* step whose next_suggestion names no node of the graph it signals
\* UnstyledCategory rather than painting the default stroke.
C22_UnknownCategoryFails ==
  viz \in GraphKinds =>
    LET state == encSteps[stepIndex + 1]
    IN /\ \A id \in GraphNodes :
            /\ painted[id].fill
                 \in {"--visited-color", "--node-color", UnstyledCategory}
            /\ painted[id].stroke
                 \in {"--ai-color", "--stroke-color", UnstyledCategory}
       /\ state.next_suggestion \notin GraphNodes \cup {NoSuggestion} =>
            \A id \in GraphNodes : painted[id].stroke = UnstyledCategory

\* ------------------------------------------------ saved positions, checked
\* Prim's visualizer with any saved positions in the ref when the setup loop
\* runs, in a browser without speech synthesis
InitPositions ==
  /\ viz = "Prims"
  /\ audioModule = "audioUtils"
  /\ speechApi = FALSE
  /\ N = MaxSteps
  /\ bfSteps = <<>>
  /\ fwSteps = <<>>
  /\ encSteps = <<>>
  /\ speechFails = FALSE
  /\ initialArray = <<>>
  /\ Mounted
  /\ positionsRef \in PositionRefs
  /\ nodeXY = NoPositions

NextPositions ==
  \/ SetupPositions
  \/ ClickPrev
  \/ ClickNext
  \/ ClickDetail

SpecPositions == InitPositions /\ [][NextPositions]_vars

\* C23: the position loop gives every node whose id has an entry in
\* positionsRef its saved position and leaves that entry alone, gives every
\* other node the slot of its index and saves it, and running it again on
\* the result changes nothing
C23_PositionLoopIdempotent ==
  [][lastEvent' = "setupPositions" =>
       /\ \A i \in 0 .. Len(NodeList) - 1 :
            LET id == NodeList[i + 1]
            IN IF positionsRef[id] # NoEntry
               THEN /\ nodeXY'[id] = positionsRef[id]
                    /\ positionsRef'[id] = positionsRef[id]
               ELSE /\ nodeXY'[id] = Slot(i)
                    /\ positionsRef'[id] = Slot(i)
       /\ PositionLoop(positionsRef', NoPositions, 0)
            = [ref |-> positionsRef', xy |-> nodeXY']]_vars

C23_Witness ==
  /\ lastEvent = "setupPositions"
  /\ nodeXY["A"] = Slot(2)
  /\ nodeXY["B"] = Slot(1)
  /\ nodeXY["C"] = <<"at", 1>>
  /\ positionsRef = nodeXY

\* the ids a step names: its queue, its visited list and its suggestion
StepIds(step) ==
  {step.queue[k] : k \in 1 .. Len(step.queue)}
    \cup {step.visited[k] : k \in 1 .. Len(step.visited)}
    \cup (IF step.next_suggestion = NoSuggestion THEN {}
          ELSE {step.next_suggestion})

\* C24: the bundled BFS trace has at least one step, the step at index k is
\* numbered k + 1 (so is the step on show), every step carries exactly two
\* narration strings, and every id in a queue, a visited list or a
\* suggestion is one of input.nodes
C24_BundledTraceSchema ==
  LET steps == bfsData.steps
      nodes == {bfsData.nodes[k] : k \in 1 .. Len(bfsData.nodes)}
  IN /\ Len(steps) >= 1
     /\ \A k \in 0 .. Len(steps) - 1 :
          /\ steps[k + 1].step_number = k + 1
          /\ Len(steps[k + 1].actions) = 2
          /\ StepIds(steps[k + 1]) \subseteq nodes
     /\ steps[stepIndex + 1].step_number = stepIndex + 1

C24_Witness ==
  /\ viz = "BFS"
  /\ stepIndex = Len(bfsData.steps) - 1
  /\ bfsData.steps[stepIndex + 1].step_number = 5
  /\ bfsData.steps[stepIndex + 1].next_suggestion = NoSuggestion
  /\ explanationLevel = 1
  /\ lastEvent = "detail"

\* C25: a theme toggle or a reset-layout click, in any visualizer, sets off
\* no speak call, schedules none, and leaves the narration in progress alone
\* (nothing cancelled, nothing queued to start)
C25_ThemeAndResetSilent ==
  [][lastEvent' \in {"theme", "reset"} =>
       /\ issued' = <<>>
       /\ UNCHANGED <<engine, timers, renderTimers, lastRequest, events,
                      isSpeaking>>]_vars

\* ------------------------------------------------------- unmount, checked
\* the merge-sort tree in a browser with speech synthesis, until and after
\* it is unmounted; an unmounted component receives no clicks
InitUnmount ==
  /\ viz = "MergeSortTree"
  /\ audioModule = "audioUtils"
  /\ speechApi = TRUE
  /\ N = MaxSteps
  /\ bfSteps = <<>>
  /\ fwSteps = <<>>
  /\ encSteps = <<>>
  /\ speechFails = FALSE
  /\ initialArray = <<>>
  /\ Mounted
  /\ PositionsMounted

NextUnmount ==
  \/ (mounted /\ ClickPrev)
  \/ (mounted /\ ClickNext)
  \/ (mounted /\ ClickDetail)
  \/ (mounted /\ ClickTheme)
  \/ (mounted /\ SliderSeek)
  \/ (mounted /\ ClickReset)
  \/ Unmount
  \/ RenderTimer
  \/ SpeakTimer
  \/ UtteranceDone
  \/ UtteranceEvent

SpecUnmount == InitUnmount /\ [][NextUnmount]_vars

\* C26: once the merge-sort tree is unmounted the speech engine holds no
\* utterance, whatever timers were pending at the unmount
C26_SilentAfterUnmount == ~mounted => engine = <<>>

\* C27: under audioUtils, whenever the speech engine is idle and no 100 ms
\* callback and no onend/onerror callback is pending, isSpeaking is false,
\* also after a speech call threw
C27_FlagFalseWhenIdle ==
  (audioModule = "audioUtils" /\ engine = <<>> /\ timers = <<>>
     /\ renderTimers = <<>> /\ events = 0) => ~isSpeaking

\* ------------------------------------------- events between renders, checked
\* Prim's (captured index) and BFS (updater function) when up to MaxBatch
\* Next or Prev events are handled before the component re-renders
InitStale ==
  /\ viz \in {"Prims", "BFS"}
  /\ audioModule = "audioUtils"
  /\ speechApi \in BOOLEAN
  /\ N = MaxBatch + 1
  /\ bfSteps = <<>>
  /\ fwSteps = <<>>
  /\ encSteps = <<>>
  /\ speechFails = FALSE
  /\ initialArray = <<>>
  /\ Mounted
  /\ PositionsMounted

NextStale ==
  \/ HandleNext
  \/ HandlePrev
  \/ Render
  \/ (batchCount = 0 /\ ClickDetail)
  \/ SpeakTimer
  \/ UtteranceDone
  \/ UtteranceEvent

SpecStale == InitStale /\ [][NextStale]_vars

\* C28: after k Next events handled since the render that showed index i,
\* stepIndex = min(i + k, N - 1); after k Prev events, max(i - k, 0)
C28_BatchedEventsAllCount ==
  /\ batchCount >= 0 => stepIndex = Min(captured + batchCount, N - 1)
  /\ batchCount <= 0 => stepIndex = Max(captured + batchCount, 0)

\* the cell detectUpdatedCell infers for the step on show
InferredCell ==
  detectUpdatedCell(stepIndex > 0, fwSteps[Max(stepIndex, 1)].distances,
                    fwSteps[stepIndex + 1].distances)

\* C29: in the Floyd-Warshall matrix at most one cell is highlighted; when
\* the step on show carries an updated_cell it is that cell, at step 0 too,
\* whatever the diff says; otherwise it is the cell inferred from step i-1,
\* if any
C29_ExplicitCellWins ==
  viz = "FloydWarshall" =>
    LET explicit == fwSteps[stepIndex + 1].updated_cell
    IN /\ Cardinality(HighlightedCells(stepIndex)) <= 1
       /\ explicit # NoCell => HighlightedCells(stepIndex) = {explicit}
       /\ explicit = NoCell =>
            HighlightedCells(stepIndex)
              = IF InferredCell = NoCell THEN {} ELSE {InferredCell}

C29_Witness ==
  /\ viz = "FloydWarshall"
  /\ stepIndex = 1
  /\ fwSteps[1].updated_cell = <<"B", "A">>
  /\ fwSteps[2].updated_cell = <<"B", "A">>
  /\ InferredCell = <<"A", "B">>
  /\ HighlightedCells(stepIndex) = {<<"B", "A">>}

====
